---- MODULE Spec2Model ----
(***************************************************************************)
(* PitchPulse: the ball-by-ball scoring service (ScoringService) over the  *)
(* matches table.  A match row holds a status and a nullable score_data    *)
(* JSON document; every service method reads the row, mutates it and       *)
(* commits.  overs is a Python float "over + balls/10"; the model holds it *)
(* as the integer number of tenths (1.4 is 14), which is what              *)
(* int(current_overs) and int((current_overs*10)%10) decode.               *)
(* The live fan-out is modelled beside it: the ConnectionManager registry, *)
(* the websocket handler with its heartbeat, RedisPublisher, the Redis     *)
(* pattern subscription and the redis_subscriber task.  Coroutines         *)
(* interleave at their awaits; channel names are sequences of characters.  *)
(***************************************************************************)
EXTENDS Integers, Sequences, FiniteSets, TLC

VARIABLES
    matches,    \* the matches table: id -> row (status, score_data)
    ret,        \* outcome of the last service call: method, returned value, commit
    hist,       \* history per match since its last initialize_score
    active_connections, \* ConnectionManager: channel name -> list of websockets
    sockets,    \* per websocket: where its handler is, its match, its heartbeat task
    bc,         \* the broadcast_to_match call in progress (its locals)
    pubsub,     \* Redis: the pattern subscription and the messages not yet read
    sub,        \* the redis_subscriber task
    pub_ret,    \* outcome of the last publish_match_update call
    reqs,       \* concurrent POST /ball requests: the row each has read
    db          \* DatabaseManager: the committed rows and the session of the
                \* with block under get_transaction_session

score_vars == <<matches, ret, hist>>

fanout_vars == <<active_connections, sockets, bc, pubsub, sub, pub_ret>>

vars == <<matches, ret, hist, active_connections, sockets, bc, pubsub, sub,
          pub_ret, reqs, db>>

(***************************************************************************)
(* Values                                                                  *)
(***************************************************************************)
\* Python None for record-valued fields (score_data, current_bowler, last_ball)
None == [is_none |-> TRUE]

\* extra_type = None (a legal delivery); the other values are the schema's pattern
NoExtra == "None"

ExtraTypes == {"wide", "no_ball", "bye", "leg_bye"}

SCHEDULED == "Scheduled"

IN_PROGRESS == "In Progress"

COMPLETED == "Completed"

\* the ids requests name; create_match hands them out in order, so a request
\* made before create_match names a match that does not exist
MatchIds == {1}

\* (batting_team_id, bowling_team_id) pairs of a MatchInitialize body
InitInputs == {<<1, 2>>, <<2, 1>>}

\* bound: ball events applied to a match since its last initialize_score
MaxBalls == 2

\* bound: the same, in the specification of the ball events (SpecBalls)
MaxBallsRich == 2

\* bound: the same, in the long-innings specification (SpecLong)
MaxBallsLong == 12

BallEvent(runs, batsmen, bowlers, extras) ==
    [runs : runs, is_wicket : BOOLEAN, extra_type : extras,
     batsman_name : batsmen, bowler_name : bowlers, commentary : {"ball"}]

\* validated BallEvent bodies of the general specification
BallData == BallEvent({0, 1}, {"A"}, {"X"}, {NoExtra, "wide", "bye"})

\* two batsmen, every extra type
RichBallData == BallEvent({0, 1}, {"A", "B"}, {"X"}, {NoExtra} \cup ExtraTypes)

\* bound: the same, in the specification of the batsmen (SpecBatsmen)
MaxBallsBatsmen == 3

\* two batsmen, legal deliveries, wides and byes
BatsmenBallData == BallEvent({0, 1}, {"A", "B"}, {"X"}, {NoExtra, "wide", "bye"})

\* bound: the same, in the specification of the bowler's spell (SpecOver)
MaxBallsOver == 7

\* one batsman, two bowlers: dot balls by either bowler, and wides by X with
\* one run, with and without a wicket
OverBallData ==
    {ball_data \in BallEvent({0, 1}, {"A"}, {"X", "Y"}, {NoExtra, "wide"}) :
        IF ball_data.extra_type = NoExtra
        THEN ball_data.runs = 0 /\ ~ball_data.is_wicket
        ELSE ball_data.runs = 1 /\ ball_data.bowler_name = "X"}

\* one batsman, one bowler, no runs: innings long enough for overs and wickets
LongBallData == BallEvent({0}, {"A"}, {"X"}, {NoExtra} \cup ExtraTypes)

\* updates dictionaries given to update_score
UpdateInputs ==
    { [commentary |-> "Match has begun!", bogus |-> 1] }

\* an id no row has: the one the service test asks for
MissingId == 99999

\* the ids callers pass: those of rows that may exist, and the missing one
CallerIds == MatchIds \cup {MissingId}

(***************************************************************************)
(* ScoringService helpers                                                  *)
(***************************************************************************)
\* mutant of get_match: a missing id falls back to the first row there is
get_match_or_first(match_id) ==
    IF match_id \in DOMAIN matches THEN matches[match_id]
    ELSE IF DOMAIN matches # {}
         THEN matches[CHOOSE i \in DOMAIN matches : \A j \in DOMAIN matches : i <= j]
         ELSE None

get_match(match_id) ==
    IF match_id \in DOMAIN matches THEN matches[match_id] ELSE None

\* mutant of InitialScoreData: the two team ids are exchanged
InitialScoreData_swapped(batting_team_id, bowling_team_id) ==
    [ innings |-> 1,
      batting_team_id |-> bowling_team_id,
      bowling_team_id |-> batting_team_id,
      score |-> 0,
      wickets |-> 0,
      overs |-> 0,
      current_batsmen |-> <<>>,
      current_bowler |-> None,
      last_ball |-> None,
      commentary |-> "Match is about to start..." ]

InitialScoreData(batting_team_id, bowling_team_id) ==
    [ innings |-> 1,
      batting_team_id |-> batting_team_id,
      bowling_team_id |-> bowling_team_id,
      score |-> 0,
      wickets |-> 0,
      overs |-> 0,
      current_batsmen |-> <<>>,
      current_bowler |-> None,
      last_ball |-> None,
      commentary |-> "Match is about to start..." ]

\* mutant of calculate_new_overs: the over is closed one ball late (balls == 6)
calculate_new_overs_late(current_overs, is_legal_ball) ==
    LET over == current_overs \div 10
        balls == current_overs % 10
    IN  IF is_legal_ball
        THEN IF balls = 6
             THEN (over + 1) * 10
             ELSE over * 10 + (balls + 1)
        ELSE current_overs

\* overs in tenths: over = int(current_overs), balls = int((current_overs*10)%10)
calculate_new_overs(current_overs, is_legal_ball) ==
    LET over == current_overs \div 10
        balls == current_overs % 10
    IN  IF is_legal_ball
        THEN IF balls + 1 = 6
             THEN (over + 1) * 10
             ELSE over * 10 + (balls + 1)
        ELSE current_overs

\* mutant of NewOvers: byes and leg byes count as legal deliveries
NewOvers_byes_legal(current_overs, ball_data) ==
    IF ball_data.extra_type \in {NoExtra, "bye", "leg_bye"}
    THEN calculate_new_overs(current_overs, TRUE)
    ELSE calculate_new_overs(current_overs, FALSE)

\* a delivery is legal when extra_type is None
NewOvers(current_overs, ball_data) ==
    IF ball_data.extra_type = NoExtra
    THEN calculate_new_overs(current_overs, TRUE)
    ELSE calculate_new_overs(current_overs, FALSE)

\* the dismissed batsman is filtered out of current_batsmen
RemoveDismissed(current_batsmen, dismissed_batsman) ==
    SelectSeq(current_batsmen, LAMBDA batsman : batsman.name # dismissed_batsman)

\* mutant of UpdateBatsmen: an entry is appended without looking for the name
UpdateBatsmen_always_appends(current_batsmen, ball_data) ==
    Append(current_batsmen,
           [name |-> ball_data.batsman_name,
            runs |-> ball_data.runs,
            balls |-> IF ball_data.extra_type = NoExtra THEN 1 ELSE 0])

\* mutant of UpdateBatsmen: every delivery counts as a ball faced
UpdateBatsmen_counts_extras(current_batsmen, ball_data) ==
    LET found == {i \in 1..Len(current_batsmen) :
                    current_batsmen[i].name = ball_data.batsman_name}
    IN  IF found # {}
        THEN LET i == CHOOSE j \in found : \A k \in found : j <= k
             IN  [current_batsmen EXCEPT
                    ![i].runs = @ + ball_data.runs,
                    ![i].balls = @ + 1]
        ELSE Append(current_batsmen,
                    [name |-> ball_data.batsman_name,
                     runs |-> ball_data.runs,
                     balls |-> 1])

\* the first entry of that name gets the runs (and the ball, if legal);
\* with no such entry a new one is appended
UpdateBatsmen(current_batsmen, ball_data) ==
    LET found == {i \in 1..Len(current_batsmen) :
                    current_batsmen[i].name = ball_data.batsman_name}
    IN  IF found # {}
        THEN LET i == CHOOSE j \in found : \A k \in found : j <= k
             IN  [current_batsmen EXCEPT
                    ![i].runs = @ + ball_data.runs,
                    ![i].balls = IF ball_data.extra_type = NoExtra THEN @ + 1 ELSE @]
        ELSE Append(current_batsmen,
                    [name |-> ball_data.batsman_name,
                     runs |-> ball_data.runs,
                     balls |-> IF ball_data.extra_type = NoExtra THEN 1 ELSE 0])

\* mutant of NewBowler: the first ball of the spell is not credited
NewBowler_uncredited(ball_data, new_overs) ==
    [name |-> ball_data.bowler_name,
     overs |-> 0,
     runs |-> ball_data.runs,
     wickets |-> IF ball_data.is_wicket THEN 1 ELSE 0]

NewBowler(ball_data, new_overs) ==
    [name |-> ball_data.bowler_name,
     overs |-> IF ball_data.extra_type = NoExtra THEN new_overs ELSE 0,
     runs |-> ball_data.runs,
     wickets |-> IF ball_data.is_wicket THEN 1 ELSE 0]

\* mutant of UpdateBowler: a new bowler takes over the figures of the previous
UpdateBowler_keeps_figures(current_bowler, ball_data, new_overs) ==
    IF current_bowler = None
    THEN NewBowler(ball_data, new_overs)
    ELSE [current_bowler EXCEPT
            !.name = ball_data.bowler_name,
            !.overs = IF ball_data.extra_type = NoExtra THEN new_overs ELSE @,
            !.runs = @ + ball_data.runs,
            !.wickets = IF ball_data.is_wicket THEN @ + 1 ELSE @]

\* mutant of UpdateBowler: the continuing bowler's overs follow the match overs
\* on every delivery
UpdateBowler_always_overs(current_bowler, ball_data, new_overs) ==
    IF current_bowler = None
    THEN NewBowler(ball_data, new_overs)
    ELSE IF current_bowler.name = ball_data.bowler_name
         THEN [current_bowler EXCEPT
                 !.overs = new_overs,
                 !.runs = @ + ball_data.runs,
                 !.wickets = IF ball_data.is_wicket THEN @ + 1 ELSE @]
         ELSE NewBowler(ball_data, new_overs)

UpdateBowler(current_bowler, ball_data, new_overs) ==
    IF current_bowler = None
    THEN NewBowler(ball_data, new_overs)
    ELSE IF current_bowler.name = ball_data.bowler_name
         THEN [current_bowler EXCEPT
                 !.overs = IF ball_data.extra_type = NoExtra THEN new_overs ELSE @,
                 !.runs = @ + ball_data.runs,
                 !.wickets = IF ball_data.is_wicket THEN @ + 1 ELSE @]
         ELSE NewBowler(ball_data, new_overs)

\* mutant of ApplyBall: the counters are set from the ball, not accumulated
ApplyBall_overwrites(score_data, ball_data) ==
    LET new_overs == NewOvers(0, ball_data)
    IN  [score_data EXCEPT
            !.score = ball_data.runs,
            !.wickets = IF ball_data.is_wicket THEN 1 ELSE 0,
            !.overs = new_overs,
            !.current_batsmen = UpdateBatsmen(<<>>, ball_data),
            !.current_bowler = NewBowler(ball_data, new_overs),
            !.last_ball = [runs |-> ball_data.runs,
                           is_wicket |-> ball_data.is_wicket,
                           extra_type |-> ball_data.extra_type],
            !.commentary = ball_data.commentary]

\* the document process_ball_event commits for score_data and ball_data
ApplyBall(score_data, ball_data) ==
    LET current_score == score_data.score
        current_wickets == score_data.wickets
        current_overs == score_data.overs
        new_score == current_score + ball_data.runs
        after_wicket ==
            IF ball_data.is_wicket
            THEN RemoveDismissed(score_data.current_batsmen, ball_data.batsman_name)
            ELSE score_data.current_batsmen
        new_overs == NewOvers(current_overs, ball_data)
    IN  [score_data EXCEPT
            !.score = new_score,
            !.wickets = IF ball_data.is_wicket THEN current_wickets + 1 ELSE @,
            !.overs = new_overs,
            !.current_batsmen = UpdateBatsmen(after_wicket, ball_data),
            !.current_bowler = UpdateBowler(@, ball_data, new_overs),
            !.last_ball = [runs |-> ball_data.runs,
                           is_wicket |-> ball_data.is_wicket,
                           extra_type |-> ball_data.extra_type],
            !.commentary = ball_data.commentary]

\* mutant of ApplyUpdates: a plain dict.update, unknown keys are added
ApplyUpdates_adds(score_data, updates) ==
    [key \in DOMAIN score_data \cup DOMAIN updates |->
        IF key \in DOMAIN updates THEN updates[key] ELSE score_data[key]]

\* existing keys are overwritten, the others skipped
ApplyUpdates(score_data, updates) ==
    [key \in DOMAIN score_data |->
        IF key \in DOMAIN updates THEN updates[key] ELSE score_data[key]]

(***************************************************************************)
(* History (not program state): what was applied since initialize_score    *)
(***************************************************************************)
FreshHist == [balls |-> 0, legal |-> 0, runs |-> 0, wickets |-> 0, only_balls |-> TRUE]

HistAfterBall(h, ball_data) ==
    [h EXCEPT !.balls = @ + 1,
              !.legal = IF ball_data.extra_type = NoExtra THEN @ + 1 ELSE @,
              !.runs = @ + ball_data.runs,
              !.wickets = IF ball_data.is_wicket THEN @ + 1 ELSE @]

\* what the row was when the call read it: "None" for no such match
StatusOf(match_id) ==
    IF match_id \in DOMAIN matches THEN matches[match_id].status ELSE "None"

HasScore(match_id) ==
    match_id \in DOMAIN matches /\ matches[match_id].score_data # None

\* the record of a call: the method, what it returned (the Match row or None),
\* whether it committed, and the status and score_data presence it found
Returned(op, match_id, value, committed) ==
    [op |-> op, match_id |-> match_id, value |-> value, committed |-> committed,
     status_before |-> StatusOf(match_id), score_before |-> HasScore(match_id)]

\* the status code of POST /matches/{match_id}/ball for the service's return value
process_ball(value) == IF value = "None" THEN 400 ELSE 200

(***************************************************************************)
(* Service methods                                                         *)
(***************************************************************************)
InitScore ==
    /\ matches = [id \in {} |-> None]
    /\ hist = [id \in {} |-> FreshHist]
    /\ ret = Returned("none", 0, "None", FALSE)

create_match(tournament_id, team1_id, team2_id) ==
    /\ MatchIds \ DOMAIN matches # {}
    /\ LET id == CHOOSE i \in MatchIds \ DOMAIN matches :
                    \A j \in MatchIds \ DOMAIN matches : i <= j
           new_match == [tournament_id |-> tournament_id,
                         team1_id |-> team1_id,
                         team2_id |-> team2_id,
                         status |-> SCHEDULED,
                         score_data |-> None]
       IN  /\ matches' = [i \in DOMAIN matches \cup {id} |->
                            IF i = id THEN new_match ELSE matches[i]]
           /\ hist' = [i \in DOMAIN hist \cup {id} |->
                            IF i = id THEN FreshHist ELSE hist[i]]
           /\ ret' = Returned("create_match", id, "Match", TRUE)

initialize_score(match_id, batting_team_id, bowling_team_id) ==
    LET match_by_id == get_match(match_id)
    IN  IF match_by_id # None
        THEN /\ matches' = [matches EXCEPT
                    ![match_id].score_data =
                        InitialScoreData(batting_team_id, bowling_team_id),
                    ![match_id].status = IN_PROGRESS]
             /\ hist' = [hist EXCEPT ![match_id] = FreshHist]
             /\ ret' = Returned("initialize_score", match_id, "Match", TRUE)
        ELSE /\ UNCHANGED <<matches, hist>>
             /\ ret' = Returned("initialize_score", match_id, "None", FALSE)

update_score(match_id, updates) ==
    LET match_by_id == get_match(match_id)
    IN  IF match_by_id # None /\ match_by_id.score_data # None
        THEN /\ matches' = [matches EXCEPT
                    ![match_id].score_data = ApplyUpdates(@, updates)]
             /\ hist' = [hist EXCEPT ![match_id].only_balls = FALSE]
             /\ ret' = Returned("update_score", match_id, "Match", TRUE)
        ELSE /\ UNCHANGED <<matches, hist>>
             /\ ret' = Returned("update_score", match_id, "None", FALSE)

\* mutant of process_ball_event: the score_data check is missing, so reading
\* score_data["score"] of None raises and the handler rolls back
process_ball_event_unchecked(match_id, ball_data) ==
    LET match_by_id == get_match(match_id)
    IN  IF match_by_id = None
        THEN /\ UNCHANGED <<matches, hist>>
             /\ ret' = Returned("process_ball_event", match_id, "None", FALSE)
        ELSE IF match_by_id.score_data = None
        THEN /\ UNCHANGED <<matches, hist>>
             /\ ret' = Returned("process_ball_event", match_id, "Raise", FALSE)
        ELSE /\ matches' = [matches EXCEPT
                    ![match_id].score_data = ApplyBall(@, ball_data)]
             /\ hist' = [hist EXCEPT ![match_id] = HistAfterBall(@, ball_data)]
             /\ ret' = Returned("process_ball_event", match_id, "Match", TRUE)

process_ball_event(match_id, ball_data) ==
    LET match_by_id == get_match(match_id)
    IN  IF match_by_id = None
        THEN /\ UNCHANGED <<matches, hist>>
             /\ ret' = Returned("process_ball_event", match_id, "None", FALSE)
        ELSE IF match_by_id.score_data = None
        THEN /\ UNCHANGED <<matches, hist>>
             /\ ret' = Returned("process_ball_event", match_id, "None", FALSE)
        ELSE /\ matches' = [matches EXCEPT
                    ![match_id].score_data = ApplyBall(@, ball_data)]
             /\ hist' = [hist EXCEPT ![match_id] = HistAfterBall(@, ball_data)]
             /\ ret' = Returned("process_ball_event", match_id, "Match", TRUE)

\* complete_match that also clears the score document
complete_match_clears(match_id) ==
    LET match_by_id == get_match(match_id)
    IN  IF match_by_id # None
        THEN /\ matches' = [matches EXCEPT ![match_id].status = COMPLETED,
                                           ![match_id].score_data = None]
             /\ UNCHANGED hist
             /\ ret' = Returned("complete_match", match_id, "Match", TRUE)
        ELSE /\ UNCHANGED <<matches, hist>>
             /\ ret' = Returned("complete_match", match_id, "None", FALSE)

complete_match(match_id) ==
    LET match_by_id == get_match(match_id)
    IN  IF match_by_id # None
        THEN /\ matches' = [matches EXCEPT ![match_id].status = COMPLETED]
             /\ UNCHANGED hist
             /\ ret' = Returned("complete_match", match_id, "Match", TRUE)
        ELSE /\ UNCHANGED <<matches, hist>>
             /\ ret' = Returned("complete_match", match_id, "None", FALSE)

(***************************************************************************)
(* Channel names.  A Python str is a sequence of one-character strings, so *)
(* that formatting, splitting, int() and Redis glob matching are computed. *)
(***************************************************************************)
DigitChars == <<"0", "1", "2", "3", "4", "5", "6", "7", "8", "9">>

\* str(n) of a non-negative int
RECURSIVE IntToStr(_)
IntToStr(n) ==
    IF n < 10 THEN <<DigitChars[n + 1]>>
    ELSE IntToStr(n \div 10) \o <<DigitChars[(n % 10) + 1]>>

\* the text "match:" and the text "match: "
MatchColon == <<"m", "a", "t", "c", "h", ":">>

MatchColonSpace == MatchColon \o <<" ">>

\* RedisPublisher.publish_match_update: channel = f"match: {match_id}"
publisher_channel_nospace(match_id) == MatchColon \o IntToStr(match_id)

publisher_channel(match_id) == MatchColonSpace \o IntToStr(match_id)

\* ConnectionManager.connect, disconnect and broadcast_to_match each build
\* channel = f"match: {match_id}"
connect_channel(match_id) == MatchColonSpace \o IntToStr(match_id)

disconnect_channel(match_id) == MatchColonSpace \o IntToStr(match_id)

broadcast_channel(match_id) == MatchColonSpace \o IntToStr(match_id)

\* redis_subscriber: the pattern of psubscribe and the separator of split
SubscribePattern == MatchColonSpace \o <<"*">>

Separator == <<":", " ">>

StartsWith(s, prefix) ==
    /\ Len(s) >= Len(prefix)
    /\ SubSeq(s, 1, Len(prefix)) = prefix

\* s.split(sep): the list of the parts of s between occurrences of sep
RECURSIVE Split(_, _)
Split(s, sep) ==
    IF \E i \in 1..Len(s) : StartsWith(SubSeq(s, i, Len(s)), sep)
    THEN LET i == CHOOSE k \in 1..Len(s) :
                    /\ StartsWith(SubSeq(s, k, Len(s)), sep)
                    /\ \A j \in 1..(k - 1) : ~StartsWith(SubSeq(s, j, Len(s)), sep)
         IN  <<SubSeq(s, 1, i - 1)>> \o Split(SubSeq(s, i + Len(sep), Len(s)), sep)
    ELSE <<s>>

\* s.strip() for blanks, which int() applies to its argument
RECURSIVE Strip(_)
Strip(s) ==
    IF s = <<>> THEN s
    ELSE IF Head(s) = " " THEN Strip(Tail(s))
    ELSE IF s[Len(s)] = " " THEN Strip(SubSeq(s, 1, Len(s) - 1))
    ELSE s

DigitValue(c) == (CHOOSE d \in 1..10 : DigitChars[d] = c) - 1

IsDigit(c) == \E d \in 1..10 : DigitChars[d] = c

RECURSIVE DigitsToInt(_)
DigitsToInt(s) ==
    IF s = <<>> THEN 0
    ELSE 10 * DigitsToInt(SubSeq(s, 1, Len(s) - 1)) + DigitValue(s[Len(s)])

\* int(channel.split(": ")[1]): [ok |-> FALSE] is IndexError or ValueError
ParseMatchId(channel) ==
    LET parts == Split(channel, Separator)
    IN  IF Len(parts) < 2 THEN [ok |-> FALSE, error |-> "IndexError"]
        ELSE LET text == Strip(parts[2])
             IN  IF text # <<>> /\ \A k \in 1..Len(text) : IsDigit(text[k])
                 THEN [ok |-> TRUE, value |-> DigitsToInt(text)]
                 ELSE [ok |-> FALSE, error |-> "ValueError"]

\* Redis glob matching of a channel name, for patterns of literal characters
\* and "*" (any run of characters)
RECURSIVE GlobMatch(_, _)
GlobMatch(pattern, s) ==
    IF pattern = <<>> THEN s = <<>>
    ELSE IF Head(pattern) = "*"
         THEN \E k \in 0..Len(s) : GlobMatch(Tail(pattern), SubSeq(s, k + 1, Len(s)))
         ELSE /\ s # <<>>
              /\ Head(s) = Head(pattern)
              /\ GlobMatch(Tail(pattern), Tail(s))

(***************************************************************************)
(* ConnectionManager: active_connections maps a channel name to the list   *)
(* of websockets watching that match                                       *)
(***************************************************************************)
Websockets == {"w1", "w2", "w3"}

\* the match ids clients watch and publishers publish for
ChannelIds == {1, 12}

Range(seq) == {seq[k] : k \in 1..Len(seq)}

\* list.remove(x): drops the first occurrence
RemoveFirst(seq, x) ==
    LET first == CHOOSE k \in 1..Len(seq) :
                    seq[k] = x /\ \A j \in 1..(k - 1) : seq[j] # x
    IN  SubSeq(seq, 1, first - 1) \o SubSeq(seq, first + 1, Len(seq))

\* websocket is in the list of the match's channel
Registered(conns, websocket, match_id) ==
    /\ connect_channel(match_id) \in DOMAIN conns
    /\ websocket \in Range(conns[connect_channel(match_id)])

\* connect, after websocket.accept(): the list is created on first use
Connected(conns, websocket, match_id) ==
    LET channel == connect_channel(match_id)
    IN  IF channel \notin DOMAIN conns
        THEN [c \in DOMAIN conns \cup {channel} |->
                IF c = channel THEN <<websocket>> ELSE conns[c]]
        ELSE [conns EXCEPT ![channel] = Append(@, websocket)]

Disconnected_keeps_empty(conns, websocket, match_id) ==
    LET channel == disconnect_channel(match_id)
    IN  IF channel \in DOMAIN conns
        THEN IF websocket \in Range(conns[channel])
             THEN [conns EXCEPT ![channel] = RemoveFirst(@, websocket)]
             ELSE conns
        ELSE conns

\* disconnect: remove the websocket if it is listed, then delete the channel
\* if its list is empty; an unknown channel is only logged
\* mutant of Disconnected: the channel is deleted whoever is left in it
Disconnected_drops_channel(conns, websocket, match_id) ==
    LET channel == disconnect_channel(match_id)
    IN  IF channel \in DOMAIN conns
        THEN [c \in DOMAIN conns \ {channel} |-> conns[c]]
        ELSE conns

Disconnected(conns, websocket, match_id) ==
    LET channel == disconnect_channel(match_id)
    IN  IF channel \in DOMAIN conns
        THEN LET remaining == IF websocket \in Range(conns[channel])
                              THEN RemoveFirst(conns[channel], websocket)
                              ELSE conns[channel]
             IN  IF Len(remaining) = 0
                 THEN [c \in DOMAIN conns \ {channel} |-> conns[c]]
                 ELSE [conns EXCEPT ![channel] = remaining]
        ELSE conns

\* for websocket in failed_connections: await self.disconnect(websocket, match_id)
RECURSIVE DisconnectAll(_, _, _)
DisconnectAll(conns, failed_connections, match_id) ==
    IF failed_connections = <<>> THEN conns
    ELSE DisconnectAll(Disconnected(conns, Head(failed_connections), match_id),
                       Tail(failed_connections), match_id)

\* the callers whose disconnect ran list.remove for each websocket (what the
\* "Client disconnected" log lines record)
Removals(socks, conns, removed, match_id, caller) ==
    [w \in DOMAIN socks |->
        IF w \in removed /\ Registered(conns, w, match_id)
        THEN [socks[w] EXCEPT !.removed_by = Append(@, caller)]
        ELSE socks[w]]

\* no broadcast_to_match call has been made
IdleBroadcast ==
    [pc |-> "idle", match_id |-> 0, message |-> None, connections |-> <<>>,
     i |-> 1, failed_connections |-> <<>>, successful_sends |-> 0,
     attempts |-> <<>>, caller |-> "none"]

IterationList_live(b) ==
    IF broadcast_channel(b.match_id) \in DOMAIN active_connections
    THEN active_connections[broadcast_channel(b.match_id)]
    ELSE <<>>

\* the list the for loop of broadcast_to_match walks: the copy made at its start
IterationList(b) == b.connections

\* broadcast_to_match up to its first await: return if nobody watches the
\* match, else copy the list
\* mutant of broadcast_to_match: the list of any channel there is gets taken
broadcast_to_match_any(match_id, message, caller) ==
    LET call == [IdleBroadcast EXCEPT !.match_id = match_id,
                                      !.message = message,
                                      !.caller = caller]
    IN  bc' = IF DOMAIN active_connections = {}
              THEN [call EXCEPT !.pc = "done"]
              ELSE [call EXCEPT
                        !.pc = "sending",
                        !.connections = active_connections[
                            CHOOSE channel \in DOMAIN active_connections :
                                channel # broadcast_channel(match_id)
                                \/ DOMAIN active_connections
                                    = {broadcast_channel(match_id)}]]

broadcast_to_match(match_id, message, caller) ==
    LET channel == broadcast_channel(match_id)
        call == [IdleBroadcast EXCEPT !.match_id = match_id,
                                      !.message = message,
                                      !.caller = caller]
    IN  bc' = IF channel \notin DOMAIN active_connections
              THEN [call EXCEPT !.pc = "done"]
              ELSE [call EXCEPT !.pc = "sending",
                                !.connections = active_connections[channel]]

\* websocket.send_text is called with a frame: the socket remembers the first
\* frame it was ever given
Handed(socket, frame) ==
    [socket EXCEPT !.first = IF @ = "none" THEN frame ELSE @]

send_text_aborts(ok) ==
    /\ bc.pc = "sending"
    /\ bc.i <= Len(IterationList(bc))
    /\ LET websocket == IterationList(bc)[bc.i]
       IN  /\ bc' = [bc EXCEPT
                    !.i = IF ok THEN @ + 1 ELSE Len(IterationList(bc)) + 1,
                    !.attempts = Append(@, websocket),
                    !.successful_sends = IF ok THEN @ + 1 ELSE @,
                    !.failed_connections = IF ok THEN @ ELSE Append(@, websocket)]
           /\ sockets' = [sockets EXCEPT ![websocket] = Handed(@, "update")]

\* one await websocket.send_text(message): it returns or it raises, and the
\* except inside the loop records the websocket and goes on
send_text(ok) ==
    /\ bc.pc = "sending"
    /\ bc.i <= Len(IterationList(bc))
    /\ LET websocket == IterationList(bc)[bc.i]
       IN  /\ bc' = [bc EXCEPT
                    !.i = @ + 1,
                    !.attempts = Append(@, websocket),
                    !.successful_sends = IF ok THEN @ + 1 ELSE @,
                    !.failed_connections = IF ok THEN @ ELSE Append(@, websocket)]
           /\ sockets' = [sockets EXCEPT ![websocket] = Handed(@, "update")]

\* the end of the loop: the failed websockets are disconnected
cleanup_failed ==
    /\ bc.pc = "sending"
    /\ bc.i > Len(IterationList(bc))
    /\ active_connections' =
            DisconnectAll(active_connections, bc.failed_connections, bc.match_id)
    /\ sockets' = Removals(sockets, active_connections,
                           Range(bc.failed_connections), bc.match_id,
                           "broadcast")
    /\ bc' = [bc EXCEPT !.pc = "done"]

(***************************************************************************)
(* RedisPublisher, the Redis pattern subscription and redis_subscriber     *)
(***************************************************************************)
\* the longest backlog of unread pub/sub messages explored
MaxQueue == 2

\* match_data handed to the publisher: a score summary, and a dict holding a
\* datetime, which json.dumps rejects with TypeError
MatchData == {[score |-> 0, wickets |-> 0], [created_at |-> "datetime"]}

Serializable(match_data) == "created_at" \notin DOMAIN match_data

\* json.dumps(match_data): the text of a serializable dict
dumps(match_data) == [json |-> match_data]

\* channels another Redis client may publish on that the pattern also matches:
\* int("abc") and int("") raise ValueError
ForeignChannels == {MatchColonSpace \o <<"a", "b", "c">>, MatchColonSpace}

NoPublish == [outcome |-> "none", raised |-> FALSE, match_id |-> 0, receivers |-> 0]

PublishFailed_raises(match_id) ==
    [outcome |-> "failed", raised |-> TRUE, match_id |-> match_id, receivers |-> 0]

\* except Exception: logger.error(...); the method returns None
PublishFailed(match_id) ==
    [outcome |-> "failed", raised |-> FALSE, match_id |-> match_id, receivers |-> 0]

\* PUBLISH on the server: a pmessage is queued for the subscribed connection
\* if one of its patterns matches the channel; the reply counts the receivers
Receivers(channel) ==
    IF \E pattern \in pubsub.patterns : GlobMatch(pattern, channel) THEN 1 ELSE 0

Delivered(channel, data) ==
    IF Receivers(channel) = 1
    THEN [pubsub EXCEPT !.queue = Append(@,
            [type |-> "pmessage",
             pattern |-> CHOOSE pattern \in pubsub.patterns : GlobMatch(pattern, channel),
             channel |-> channel,
             data |-> data])]
    ELSE pubsub

publish_match_update(match_id, match_data, transport_ok) ==
    LET channel == publisher_channel(match_id)
    IN  IF Serializable(match_data) /\ transport_ok
        THEN /\ pubsub' = Delivered(channel, dumps(match_data))
             /\ pub_ret' = [outcome |-> "published", raised |-> FALSE,
                            match_id |-> match_id, receivers |-> Receivers(channel)]
        ELSE /\ pub_ret' = PublishFailed(match_id)
             /\ UNCHANGED pubsub

\* the subscriber task before it runs
NewSubscriber == [pc |-> "init", last |-> "none", skipped |-> FALSE]

OnMessageError_exits(s) == [s EXCEPT !.pc = "exited", !.last = "skipped", !.skipped = TRUE]

\* the inner except: the error is logged and the async for takes the next message
OnMessageError(s) == [s EXCEPT !.last = "skipped", !.skipped = TRUE]

\* get_async_redis, pubsub and psubscribe; a failure reaches the outer except
subscribe(ok) ==
    /\ sub.pc = "init"
    /\ IF ok
       THEN /\ pubsub' = [patterns |-> pubsub.patterns \cup {SubscribePattern},
                          queue |-> Append(pubsub.queue,
                                [type |-> "psubscribe", pattern |-> <<>>,
                                 channel |-> SubscribePattern, data |-> [count |-> 1]])]
            /\ sub' = [sub EXCEPT !.pc = "listening"]
       ELSE /\ sub' = [sub EXCEPT !.pc = "exited"]
            /\ UNCHANGED pubsub

\* one turn of "async for message in pubsub.listen()", up to the first await
\* of broadcast_to_match; raises says that the awaited call raises
on_message(raises) ==
    /\ sub.pc = "listening"
    /\ pubsub.queue # <<>>
    /\ bc.pc \in {"idle", "done"}
    /\ pubsub' = [pubsub EXCEPT !.queue = Tail(@)]
    /\ LET message == Head(pubsub.queue)
           parsed == ParseMatchId(message.channel)
       IN  IF message.type # "pmessage"
           THEN /\ sub' = [sub EXCEPT !.last = "ignored"]
                /\ UNCHANGED bc
           ELSE IF ~parsed.ok \/ raises
           THEN /\ sub' = OnMessageError(sub)
                /\ UNCHANGED bc
           ELSE /\ broadcast_to_match(parsed.value, message.data, "subscriber")
                /\ sub' = [sub EXCEPT !.last = "broadcast",
                                      !.pc = IF bc'.pc = "done" THEN "listening"
                                             ELSE "broadcasting"]

\* pubsub.listen() raises (the connection to Redis is lost): the outer except
\* logs the error and redis_subscriber returns
listen_fails ==
    /\ sub.pc = "listening"
    /\ sub' = [sub EXCEPT !.pc = "exited"]
    /\ pubsub' = [patterns |-> {}, queue |-> <<>>]

(***************************************************************************)
(* handle_websocket_connection and send_heartbeat                          *)
(***************************************************************************)
\* a websocket no handler has accepted yet
NewSocket == [pc |-> "new", match_id |-> 0, heartbeat |-> "none",
              last |-> "none", removed_by |-> <<>>,
              match_found |-> FALSE, initials |-> 0, first |-> "none",
              replied |-> <<>>]

\* what websocket.receive_text() under wait_for gives the loop: a text, a
\* timeout, a ping whose pong cannot be sent, the disconnect, another error
LoopEvents == {"pong", "ping", "text", "timeout"}

TerminalEvents == {"disconnect", "ping_send_fails", "error"}

\* manager.connect: websocket.accept() (once per websocket), then registration
\* mutant of connect: accept succeeds on a websocket that was accepted before
connect_again(websocket, match_id) ==
    /\ active_connections' = Connected(active_connections, websocket, match_id)
    /\ sockets' = [sockets EXCEPT ![websocket].pc = "open",
                                  ![websocket].match_id = match_id]

\* await websocket.accept() succeeds once, on a new websocket; on any other it
\* raises before the registry is touched
connect(websocket, match_id) ==
    /\ sockets[websocket].pc = "new"
    /\ active_connections' = Connected(active_connections, websocket, match_id)
    /\ sockets' = [sockets EXCEPT ![websocket].pc = "open",
                                  ![websocket].match_id = match_id]

\* manager.disconnect called with any websocket and match id
disconnect(websocket, match_id) ==
    /\ active_connections' = Disconnected(active_connections, websocket, match_id)
    /\ sockets' = Removals(sockets, active_connections, {websocket}, match_id,
                           "caller")

InitialFrames_none(match_by_id) == <<>>

\* if match: await websocket.send_text(json.dumps(initial_data))
InitialFrames(match_by_id) ==
    IF match_by_id # None THEN <<"initial">> ELSE <<>>

\* handle_websocket_connection from websocket.accept() returning to its next
\* await: the websocket is registered, the match is read (db_ok: get_db and
\* get_match do not raise) and, for a match that exists, send_text is called
\* with the initial payload.  With no match the heartbeat task is created and
\* the receive loop entered at once.  If reading raises, the finally block
\* runs with heartbeat_task unbound: heartbeat_task.cancel() raises and
\* manager.disconnect is not reached
open_session(websocket, match_id, db_ok) ==
    /\ sockets[websocket].pc = "new"
    /\ active_connections' = Connected(active_connections, websocket, match_id)
    /\ LET match_by_id == get_match(match_id)
           frames == IF db_ok THEN InitialFrames(match_by_id) ELSE <<>>
           opened == [sockets[websocket] EXCEPT
                        !.match_id = match_id,
                        !.match_found = db_ok /\ match_by_id # None,
                        !.initials = Len(frames)]
       IN  sockets' = [sockets EXCEPT ![websocket] =
                IF ~db_ok THEN [opened EXCEPT !.pc = "crashed"]
                ELSE IF frames # <<>>
                THEN [Handed(opened, frames[1]) EXCEPT !.pc = "open"]
                ELSE [opened EXCEPT !.pc = "receiving", !.heartbeat = "running"]]

\* the send of the initial payload returns, and the heartbeat task is
\* created, or it raises, and the finally block fails as above
send_initial(websocket, ok) ==
    /\ sockets[websocket].pc = "open"
    /\ sockets' = [sockets EXCEPT
            ![websocket].pc = IF ok THEN "receiving" ELSE "crashed",
            ![websocket].heartbeat = IF ok THEN "running" ELSE @]
    /\ UNCHANGED active_connections

Reply_always(event) == <<"pong">>

\* the frames the loop sends for a received text: "pong" for "ping"
Reply(event) == IF event = "ping" THEN <<"pong">> ELSE <<>>

NextPc_timeout_closes(event) == IF event = "timeout" THEN "closed" ELSE "receiving"

\* while True: a text or an asyncio.TimeoutError is logged and the loop goes on
NextPc(event) == "receiving"

\* one turn of the receive loop that stays in the loop
receive_text(websocket, event) ==
    /\ sockets[websocket].pc = "receiving"
    /\ LET frames == IF event = "timeout" THEN <<>> ELSE Reply(event)
           turned == [sockets[websocket] EXCEPT !.last = event,
                                                !.replied = frames,
                                                !.pc = NextPc(event)]
       IN  sockets' = [sockets EXCEPT ![websocket] =
                IF frames # <<>> THEN Handed(turned, frames[1]) ELSE turned]
    /\ UNCHANGED active_connections

\* Task.cancel(): a task that is done stays as it is
cancel(task) == IF task = "running" THEN "cancelled" ELSE task

Unregistered_skipped(conns, websocket, match_id) == conns

\* the last line of the finally block: await manager.disconnect(websocket, match_id)
Unregistered(conns, websocket, match_id) == Disconnected(conns, websocket, match_id)

\* the loop ends by WebSocketDisconnect or another exception; the finally
\* block cancels the heartbeat and unregisters
end_session(websocket, event) ==
    /\ sockets[websocket].pc = "receiving"
    /\ LET match_id == sockets[websocket].match_id
           removed == Unregistered(active_connections, websocket, match_id)
       IN  /\ active_connections' = removed
           /\ sockets' = [sockets EXCEPT
                ![websocket].pc = "closed",
                ![websocket].last = event,
                ![websocket].replied = IF event = "ping_send_fails"
                                       THEN <<"pong">> ELSE <<>>,
                ![websocket].first = IF event = "ping_send_fails" /\ @ = "none"
                                     THEN "pong" ELSE @,
                ![websocket].heartbeat = cancel(@),
                ![websocket].removed_by =
                    IF removed # active_connections THEN Append(@, "handler") ELSE @]

\* send_heartbeat: a ping every 30 seconds; the first failed send ends the task
send_heartbeat(websocket, ok) ==
    /\ sockets[websocket].heartbeat = "running"
    /\ sockets' = [sockets EXCEPT
            ![websocket] = [Handed(@, "ping") EXCEPT
                                !.heartbeat = IF ok THEN @ ELSE "stopped"]]
    /\ UNCHANGED active_connections

(***************************************************************************)
(* Two POST /matches/{match_id}/ball requests at once: each has its own    *)
(* Session (get_db) and so its own copy of the row                         *)
(***************************************************************************)
Requests == {"r1", "r2"}

NewRequest == [pc |-> "idle", match_id |-> 0, ball_data |-> None, row |-> None,
               committed |-> FALSE]

\* process_ball_event up to the checks: the row is read into the session
read_match(r, match_id, ball_data) ==
    /\ reqs[r].pc = "idle"
    /\ LET match_by_id == get_match(match_id)
       IN  reqs' = [reqs EXCEPT ![r] =
                IF match_by_id = None \/ match_by_id.score_data = None
                THEN [@ EXCEPT !.pc = "done", !.match_id = match_id,
                               !.ball_data = ball_data]
                ELSE [@ EXCEPT !.pc = "read", !.match_id = match_id,
                               !.ball_data = ball_data, !.row = match_by_id]]
    /\ UNCHANGED <<matches, hist, ret>>

\* the rest of process_ball_event: the session's copy is mutated and the
\* whole score_data column is written by the commit
commit_ball(r) ==
    /\ reqs[r].pc = "read"
    /\ LET match_id == reqs[r].match_id
           ball_data == reqs[r].ball_data
       IN  /\ matches' = [matches EXCEPT
                    ![match_id].score_data = ApplyBall(reqs[r].row.score_data, ball_data)]
           /\ hist' = [hist EXCEPT ![match_id] = HistAfterBall(@, ball_data)]
           /\ ret' = Returned("process_ball_event", match_id, "Match", TRUE)
    /\ reqs' = [reqs EXCEPT ![r].pc = "done", ![r].committed = TRUE]

(***************************************************************************)
(* DatabaseManager.get_transaction_session: a context manager around one   *)
(* SQLAlchemy session (autocommit and autoflush off).  tables holds the    *)
(* committed rows; a session holds the objects added and not yet flushed   *)
(* (new) and those flushed inside its open transaction (flushed).          *)
(***************************************************************************)
\* the rows of the tests: TestUser Charlie and Dave
Rows == {"Charlie", "Dave"}

\* what a with block can raise: an Exception (caught by the except clause)
\* or a BaseException that is none (only the finally clause runs)
Exceptions == {"ValueError"}

Raisable == Exceptions \cup {"KeyboardInterrupt"}

NoSession ==
    [state |-> "none", new |-> {}, flushed |-> {}, seen |-> {},
     queried |-> FALSE, raised |-> "none", rolled_back |-> FALSE]

\* dropped and last_exit are history: the rows the last finished block lost
\* and how that block was left
EmptyDatabase ==
    [tables |-> {}, session |-> NoSession, dropped |-> {}, last_exit |-> "none"]

Pending(d) == d.session.new \cup d.session.flushed

\* session = self.session_factory()
session_factory(d) ==
    [d EXCEPT !.session = [NoSession EXCEPT !.state = "open"]]

add(d, row) == [d EXCEPT !.session.new = @ \cup {row}]

flush(d) ==
    [d EXCEPT !.session.flushed = @ \cup d.session.new, !.session.new = {}]

\* commit flushes and makes the transaction durable
commit(d) ==
    [d EXCEPT !.tables = @ \cup Pending(d),
              !.session.new = {}, !.session.flushed = {}]

\* with autoflush off a query reads the committed rows and those this
\* session has flushed
query(d) ==
    [d EXCEPT !.session.seen = d.tables \cup d.session.flushed,
              !.session.queried = TRUE]

rollback(d) ==
    [d EXCEPT !.session.new = {}, !.session.flushed = {},
              !.session.rolled_back = TRUE,
              !.dropped = Pending(d)]

\* close releases the connection; a transaction still open is rolled back
close(d) ==
    [d EXCEPT !.session.new = {}, !.session.flushed = {},
              !.session.state = "closed",
              !.dropped = IF d.session.rolled_back THEN @ ELSE Pending(d),
              !.last_exit = IF d.session.raised = "none"
                            THEN "end" ELSE d.session.raised]

\* mutant of transaction_failed: the except clause commits what is pending
transaction_failed_commits(d, exc) ==
    [commit(d) EXCEPT !.session.raised = exc]

\* except Exception: rollback, log, raise
transaction_failed(d, exc) ==
    [rollback(d) EXCEPT !.session.raised = exc]

\* the with block raises exc: the except clause if it is an Exception, then
\* the finally clause; the exception leaves the context manager
block_raises(exc) ==
    /\ db.session.state = "open"
    /\ db' = close(IF exc \in Exceptions
                   THEN transaction_failed(db, exc)
                   ELSE [db EXCEPT !.session.raised = exc])
    /\ UNCHANGED <<score_vars, fanout_vars, reqs>>

\* the with block ends without an exception: only the finally clause runs
block_ends ==
    /\ db.session.state = "open"
    /\ db' = close(db)
    /\ UNCHANGED <<score_vars, fanout_vars, reqs>>

\* entering the with block
get_transaction_session ==
    /\ db.session.state \in {"none", "closed"}
    /\ db' = session_factory(db)
    /\ UNCHANGED <<score_vars, fanout_vars, reqs>>

\* the statements of a with block
session_add(row) ==
    /\ db.session.state = "open"
    /\ row \notin db.tables \cup Pending(db)
    /\ db' = add(db, row)
    /\ UNCHANGED <<score_vars, fanout_vars, reqs>>

session_flush ==
    /\ db.session.state = "open"
    /\ db.session.new # {}
    /\ db' = flush(db)
    /\ UNCHANGED <<score_vars, fanout_vars, reqs>>

session_commit ==
    /\ db.session.state = "open"
    /\ Pending(db) # {}
    /\ db' = commit(db)
    /\ UNCHANGED <<score_vars, fanout_vars, reqs>>

session_query ==
    /\ db.session.state = "open"
    /\ db' = query(db)
    /\ UNCHANGED <<score_vars, fanout_vars, reqs>>

(***************************************************************************)
(* Specifications                                                          *)
(***************************************************************************)
Init ==
    /\ InitScore
    /\ active_connections = [channel \in {} |-> <<>>]
    /\ sockets = [websocket \in Websockets |-> NewSocket]
    /\ bc = IdleBroadcast
    /\ pubsub = [patterns |-> {}, queue |-> <<>>]
    /\ sub = NewSubscriber
    /\ pub_ret = NoPublish
    /\ reqs = [r \in Requests |-> NewRequest]
    /\ db = EmptyDatabase

\* the bound on the ball events explored for one innings
WithinBalls(match_id, max) ==
    match_id \in DOMAIN hist => hist[match_id].balls < max

CreateMatch == create_match(1, 1, 2) /\ UNCHANGED <<fanout_vars, reqs, db>>

InitializeScore ==
    /\ \E match_id \in MatchIds, teams \in InitInputs :
        initialize_score(match_id, teams[1], teams[2])
    /\ UNCHANGED <<fanout_vars, reqs, db>>

UpdateScore ==
    /\ \E match_id \in MatchIds, updates \in UpdateInputs :
        update_score(match_id, updates)
    /\ UNCHANGED <<fanout_vars, reqs, db>>

ProcessBallEvent ==
    /\ \E match_id \in MatchIds, ball_data \in BallData :
        /\ WithinBalls(match_id, MaxBalls)
        /\ process_ball_event(match_id, ball_data)
    /\ UNCHANGED <<fanout_vars, reqs, db>>

ProcessBallEventRich ==
    /\ \E match_id \in MatchIds, ball_data \in RichBallData :
        /\ WithinBalls(match_id, MaxBallsRich)
        /\ process_ball_event(match_id, ball_data)
    /\ UNCHANGED <<fanout_vars, reqs, db>>

ProcessBallEventBatsmen ==
    /\ \E match_id \in MatchIds, ball_data \in BatsmenBallData :
        /\ WithinBalls(match_id, MaxBallsBatsmen)
        /\ process_ball_event(match_id, ball_data)
    /\ UNCHANGED <<fanout_vars, reqs, db>>

ProcessBallEventOver ==
    /\ \E match_id \in MatchIds, ball_data \in OverBallData :
        /\ WithinBalls(match_id, MaxBallsOver)
        /\ process_ball_event(match_id, ball_data)
    /\ UNCHANGED <<fanout_vars, reqs, db>>

ProcessBallEventLong ==
    /\ \E match_id \in MatchIds, ball_data \in LongBallData :
        /\ WithinBalls(match_id, MaxBallsLong)
        /\ process_ball_event(match_id, ball_data)
    /\ UNCHANGED <<fanout_vars, reqs, db>>

CompleteMatch ==
    /\ \E match_id \in MatchIds : complete_match(match_id)
    /\ UNCHANGED <<fanout_vars, reqs, db>>

\* the service methods called with any id, the missing one too
GetMatch ==
    /\ \E match_id \in CallerIds :
        ret' = Returned("get_match", match_id,
                        IF get_match(match_id) # None THEN "Match" ELSE "None",
                        FALSE)
    /\ UNCHANGED <<matches, hist, fanout_vars, reqs, db>>

InitializeScoreAny ==
    /\ \E match_id \in CallerIds, teams \in InitInputs :
        initialize_score(match_id, teams[1], teams[2])
    /\ UNCHANGED <<fanout_vars, reqs, db>>

UpdateScoreAny ==
    /\ \E match_id \in CallerIds, updates \in UpdateInputs :
        update_score(match_id, updates)
    /\ UNCHANGED <<fanout_vars, reqs, db>>

ProcessBallEventAny ==
    /\ \E match_id \in CallerIds, ball_data \in BallData :
        /\ WithinBalls(match_id, MaxBalls)
        /\ process_ball_event(match_id, ball_data)
    /\ UNCHANGED <<fanout_vars, reqs, db>>

CompleteMatchAny ==
    /\ \E match_id \in CallerIds : complete_match(match_id)
    /\ UNCHANGED <<fanout_vars, reqs, db>>

\* the websocket sessions followed through their whole handler
Sessions == {"w1", "w2"}

\* the text handed to a broadcast_to_match call made directly
DirectMessage == dumps([score |-> 0, wickets |-> 0])

Connect ==
    /\ \E websocket \in Websockets, match_id \in ChannelIds :
        connect(websocket, match_id)
    /\ UNCHANGED <<score_vars, bc, pubsub, sub, pub_ret, reqs, db>>

Disconnect ==
    /\ \E websocket \in Websockets, match_id \in ChannelIds :
        disconnect(websocket, match_id)
    /\ UNCHANGED <<score_vars, bc, pubsub, sub, pub_ret, reqs, db>>

Broadcast ==
    /\ bc.pc \in {"idle", "done"}
    /\ \E match_id \in ChannelIds :
        broadcast_to_match(match_id, DirectMessage, "direct")
    /\ UNCHANGED <<score_vars, active_connections, sockets, pubsub, sub, pub_ret, reqs, db>>

SendText ==
    /\ \E ok \in BOOLEAN : send_text(ok)
    /\ UNCHANGED <<score_vars, active_connections, pubsub, sub, pub_ret, reqs, db>>

\* the broadcast ends; a subscriber awaiting it goes back to pubsub.listen()
CleanupFailed ==
    /\ cleanup_failed
    /\ sub' = IF bc.caller = "subscriber" THEN [sub EXCEPT !.pc = "listening"] ELSE sub
    /\ UNCHANGED <<score_vars, pubsub, pub_ret, reqs, db>>

\* manager.connect for the websockets that watch while the bridge runs
Watch ==
    /\ \E websocket \in Sessions, match_id \in ChannelIds :
        connect(websocket, match_id)
    /\ UNCHANGED <<score_vars, bc, pubsub, sub, pub_ret, reqs, db>>

\* the one session followed turn by turn in SpecViewer
Viewers == {"w1"}

OpenViewer ==
    /\ \E websocket \in Viewers, match_id \in ChannelIds, db_ok \in BOOLEAN :
        open_session(websocket, match_id, db_ok)
    /\ UNCHANGED <<score_vars, bc, pubsub, sub, pub_ret, reqs, db>>

OpenSession ==
    /\ \E websocket \in Sessions, match_id \in ChannelIds, db_ok \in BOOLEAN :
        open_session(websocket, match_id, db_ok)
    /\ UNCHANGED <<score_vars, bc, pubsub, sub, pub_ret, reqs, db>>

SendInitial ==
    /\ \E websocket \in Sessions, ok \in BOOLEAN : send_initial(websocket, ok)
    /\ UNCHANGED <<score_vars, bc, pubsub, sub, pub_ret, reqs, db>>

ReceiveText ==
    /\ \E websocket \in Sessions, event \in LoopEvents : receive_text(websocket, event)
    /\ UNCHANGED <<score_vars, bc, pubsub, sub, pub_ret, reqs, db>>

EndSession ==
    /\ \E websocket \in Sessions, event \in TerminalEvents :
        end_session(websocket, event)
    /\ UNCHANGED <<score_vars, bc, pubsub, sub, pub_ret, reqs, db>>

SendHeartbeat ==
    /\ \E websocket \in Sessions, ok \in BOOLEAN : send_heartbeat(websocket, ok)
    /\ UNCHANGED <<score_vars, bc, pubsub, sub, pub_ret, reqs, db>>

PublishMatchUpdate ==
    /\ Len(pubsub.queue) < MaxQueue
    /\ \E match_id \in ChannelIds, match_data \in MatchData, transport_ok \in BOOLEAN :
        publish_match_update(match_id, match_data, transport_ok)
    /\ UNCHANGED <<score_vars, active_connections, sockets, bc, sub, reqs, db>>

\* another client of the same Redis publishes on a channel the pattern matches
ForeignPublish ==
    /\ Len(pubsub.queue) < MaxQueue
    /\ \E channel \in ForeignChannels : pubsub' = Delivered(channel, DirectMessage)
    /\ UNCHANGED <<score_vars, active_connections, sockets, bc, sub, pub_ret, reqs, db>>

Subscribe ==
    /\ \E ok \in BOOLEAN : subscribe(ok)
    /\ UNCHANGED <<score_vars, active_connections, sockets, bc, pub_ret, reqs, db>>

OnMessage ==
    /\ \E raises \in BOOLEAN : on_message(raises)
    /\ UNCHANGED <<score_vars, active_connections, sockets, pub_ret, reqs, db>>

ListenFails ==
    /\ listen_fails
    /\ UNCHANGED <<score_vars, active_connections, sockets, bc, pub_ret, reqs, db>>

ReadMatch ==
    /\ \E r \in Requests, match_id \in MatchIds, ball_data \in BallData :
        read_match(r, match_id, ball_data)
    /\ UNCHANGED <<fanout_vars, db>>

CommitBall ==
    /\ \E r \in Requests : commit_ball(r)
    /\ UNCHANGED <<fanout_vars, db>>

Next ==
    \/ CreateMatch
    \/ InitializeScore
    \/ UpdateScore
    \/ ProcessBallEvent
    \/ CompleteMatch

Spec == Init /\ [][Next]_vars

\* the service called with ids of rows and with the id of no row
NextMissing ==
    \/ CreateMatch
    \/ GetMatch
    \/ InitializeScoreAny
    \/ UpdateScoreAny
    \/ ProcessBallEventAny
    \/ CompleteMatchAny

SpecMissing == Init /\ [][NextMissing]_vars

\* with blocks under get_transaction_session, one after the other
NextTransaction ==
    \/ get_transaction_session
    \/ \E row \in Rows : session_add(row)
    \/ session_flush
    \/ session_commit
    \/ session_query
    \/ \E exc \in Raisable : block_raises(exc)
    \/ block_ends

SpecTransaction == Init /\ [][NextTransaction]_vars

NextBalls ==
    \/ CreateMatch
    \/ InitializeScore
    \/ ProcessBallEventRich

SpecBalls == Init /\ [][NextBalls]_vars

\* innings of two batsmen
NextBatsmen ==
    \/ CreateMatch
    \/ InitializeScore
    \/ ProcessBallEventBatsmen

SpecBatsmen == Init /\ [][NextBatsmen]_vars

\* a bowler's spell over more than one over
NextOver ==
    \/ CreateMatch
    \/ InitializeScore
    \/ ProcessBallEventOver

SpecOver == Init /\ [][NextOver]_vars

NextLong ==
    \/ CreateMatch
    \/ InitializeScore
    \/ ProcessBallEventLong
    \/ CompleteMatch

SpecLong == Init /\ [][NextLong]_vars

\* the registry under direct connect, disconnect and broadcast_to_match calls
NextRegistry ==
    \/ Connect
    \/ Disconnect
    \/ Broadcast
    \/ SendText
    \/ CleanupFailed

SpecRegistry == Init /\ [][NextRegistry]_vars

\* two client sessions from accept to the finally block, with broadcasts going
\* on; the turns of the receive loop are followed in SpecViewer
NextSession ==
    \/ CreateMatch
    \/ OpenSession
    \/ SendInitial
    \/ EndSession
    \/ SendHeartbeat
    \/ Broadcast
    \/ SendText
    \/ CleanupFailed

SpecSession == Init /\ [][NextSession]_vars

\* one client session with every turn of its receive loop, and broadcasts
NextViewer ==
    \/ CreateMatch
    \/ OpenViewer
    \/ SendInitial
    \/ ReceiveText
    \/ EndSession
    \/ SendHeartbeat
    \/ Broadcast
    \/ SendText
    \/ CleanupFailed

SpecViewer == Init /\ [][NextViewer]_vars

\* the publisher, Redis and the subscriber task feeding the registry
NextBridge ==
    \/ Watch
    \/ Subscribe
    \/ PublishMatchUpdate
    \/ ForeignPublish
    \/ OnMessage
    \/ ListenFails
    \/ SendText
    \/ CleanupFailed

SpecBridge == Init /\ [][NextBridge]_vars

\* the routes, and publish_match_update called on its own
NextPublish ==
    \/ Next
    \/ PublishMatchUpdate

SpecPublish == Init /\ [][NextPublish]_vars

\* two ball requests in flight on a match
NextRace ==
    \/ CreateMatch
    \/ InitializeScore
    \/ ReadMatch
    \/ CommitBall

SpecRace == Init /\ [][NextRace]_vars


(***************************************************************************)
(* Properties                                                              *)
(***************************************************************************)
ScoreData(match_id) == matches[match_id].score_data

\* a document that has accumulated runs, wickets, overs or batsmen
Accumulated(score_data) ==
    \/ score_data.score > 0
    \/ score_data.wickets > 0
    \/ score_data.overs > 0
    \/ score_data.current_batsmen # <<>>

\* C1: after initialize_score and only process_ball_event calls, overs decodes
\* to (overNumber, ballInOver) with ballInOver in 0..5, overNumber equal to the
\* legal deliveries applied divided by 6 and ballInOver to them modulo 6.
C1_OversCountLegalDeliveries ==
    \A match_id \in DOMAIN matches :
        (HasScore(match_id) /\ hist[match_id].only_balls) =>
            LET overNumber == ScoreData(match_id).overs \div 10
                ballInOver == ScoreData(match_id).overs % 10
            IN  /\ ballInOver \in 0..5
                /\ overNumber = hist[match_id].legal \div 6
                /\ ballInOver = hist[match_id].legal % 6

\* C1 witness: the twelfth legal delivery has closed the second over.
C1_Witness ==
    /\ HasScore(1)
    /\ ret.op = "process_ball_event"
    /\ hist[1].legal = 12
    /\ ScoreData(1).overs = 20

\* C2: a ball event whose extra_type is wide, no_ball, bye or leg_bye leaves
\* the overs of the document as they were, whatever its runs and is_wicket.
C2_ExtrasLeaveOvers ==
    [][\A match_id \in MatchIds, ball_data \in RichBallData :
        (/\ HasScore(match_id)
         /\ ball_data.extra_type \in ExtraTypes
         /\ process_ball_event(match_id, ball_data))
        => matches'[match_id].score_data.overs = ScoreData(match_id).overs]_vars

\* C2 witness: an extra was applied to a document whose over is under way.
C2_Witness ==
    /\ HasScore(1)
    /\ ret.op = "process_ball_event"
    /\ ScoreData(1).last_ball # None
    /\ ScoreData(1).last_ball.extra_type = "leg_bye"
    /\ ScoreData(1).last_ball.is_wicket
    /\ ScoreData(1).overs = 1

\* C3: after a ball event with is_wicket naming batsman B, who is in
\* current_batsmen, current_batsmen has no entry named B and the other entries
\* are as before, in the same order.
C3_WicketRemovesBatsman ==
    [][\A match_id \in MatchIds, ball_data \in RichBallData :
        (/\ HasScore(match_id)
         /\ ball_data.is_wicket
         /\ \E i \in 1..Len(ScoreData(match_id).current_batsmen) :
                ScoreData(match_id).current_batsmen[i].name = ball_data.batsman_name
         /\ process_ball_event(match_id, ball_data))
        => LET before == ScoreData(match_id).current_batsmen
               after == matches'[match_id].score_data.current_batsmen
           IN  /\ \A i \in 1..Len(after) : after[i].name # ball_data.batsman_name
               /\ after = SelectSeq(before,
                            LAMBDA batsman : batsman.name # ball_data.batsman_name)]_vars

\* C4: process_ball_event on a Completed match fails and leaves the score
\* document unchanged.
C4_BallAfterCompleteRejected ==
    [][\A match_id \in MatchIds, ball_data \in BallData :
        (/\ StatusOf(match_id) = COMPLETED
         /\ process_ball_event(match_id, ball_data))
        => /\ ret'.value = "None"
           /\ matches'[match_id].score_data = ScoreData(match_id)]_vars

\* C5: process_ball_event on a match whose score_data is null returns None
\* (an error status to the HTTP caller), commits nothing and leaves score_data
\* null and the status as it was (Scheduled).
C5_BallBeforeInitializeFails ==
    [][\A match_id \in MatchIds, ball_data \in BallData :
        (/\ match_id \in DOMAIN matches
         /\ ~HasScore(match_id)
         /\ process_ball_event(match_id, ball_data))
        => /\ ret'.value = "None"
           /\ process_ball(ret'.value) = 400
           /\ ~ret'.committed
           /\ matches'[match_id].score_data = None
           /\ matches'[match_id].status = StatusOf(match_id)
           /\ matches' = matches]_vars

\* C5 witness: a ball event was sent to a Scheduled match with no score_data.
C5_Witness ==
    /\ ret.op = "process_ball_event"
    /\ ret.status_before = SCHEDULED
    /\ ~ret.score_before
    /\ StatusOf(1) = SCHEDULED
    /\ ~HasScore(1)

\* C6: in every reachable state of an initialized match, wickets is at most 10.
C6_WicketsAtMostTen ==
    \A match_id \in DOMAIN matches :
        HasScore(match_id) => ScoreData(match_id).wickets <= 10

\* C7: once the status of a match is Completed, no call changes it.
C7_CompletedIsTerminal ==
    [][\A match_id \in DOMAIN matches :
        StatusOf(match_id) = COMPLETED
        => matches'[match_id].status = COMPLETED]_vars

\* C8: initialize_score on a match In Progress never replaces a document that
\* has accumulated runs, wickets, overs or batsmen.
C8_ReinitializeKeepsDocument ==
    [][\A match_id \in MatchIds, teams \in InitInputs :
        (/\ StatusOf(match_id) = IN_PROGRESS
         /\ HasScore(match_id)
         /\ Accumulated(ScoreData(match_id))
         /\ initialize_score(match_id, teams[1], teams[2]))
        => matches'[match_id].score_data = ScoreData(match_id)]_vars

\* C9: complete_match on a Scheduled match whose score was never initialized
\* fails and leaves the status Scheduled.
C9_CompleteNeedsInProgress ==
    [][\A match_id \in MatchIds :
        (/\ StatusOf(match_id) = SCHEDULED
         /\ ~HasScore(match_id)
         /\ complete_match(match_id))
        => /\ ret'.value = "None"
           /\ matches'[match_id].status = SCHEDULED]_vars

\* C10: initialize_score on an existing Scheduled match sets the status to
\* In Progress and creates a document with innings 1, the given team ids,
\* score 0, wickets 0, overs (0,0), no batsmen, no bowler and no last ball.
C10_InitializeCreatesZeroedDocument ==
    [][\A match_id \in MatchIds, teams \in InitInputs :
        (/\ StatusOf(match_id) = SCHEDULED
         /\ initialize_score(match_id, teams[1], teams[2]))
        => LET doc == matches'[match_id].score_data
           IN  /\ matches'[match_id].status = IN_PROGRESS
               /\ doc # None
               /\ doc.innings = 1
               /\ doc.batting_team_id = teams[1]
               /\ doc.bowling_team_id = teams[2]
               /\ doc.score = 0
               /\ doc.wickets = 0
               /\ doc.overs \div 10 = 0
               /\ doc.overs % 10 = 0
               /\ doc.current_batsmen = <<>>
               /\ doc.current_bowler = None
               /\ doc.last_ball = None]_vars

\* C10 witness: initialize_score has returned the row of a match it found
\* Scheduled, batting team 2 and bowling team 1.
C10_Witness ==
    /\ ret.op = "initialize_score"
    /\ ret.value = "Match"
    /\ ret.status_before = SCHEDULED
    /\ StatusOf(1) = IN_PROGRESS
    /\ HasScore(1)
    /\ ScoreData(1).batting_team_id = 2
    /\ ScoreData(1).bowling_team_id = 1

\* the list registered on a match's channel, empty when the channel is absent
Watchers(conns, match_id) ==
    IF broadcast_channel(match_id) \in DOMAIN conns
    THEN conns[broadcast_channel(match_id)]
    ELSE <<>>

Attempts(websocket) ==
    Cardinality({k \in 1..Len(bc.attempts) : bc.attempts[k] = websocket})

\* C11: when a broadcast_to_match pass ends, every connection of the match was
\* written to whatever the other writes did (so each one whose write succeeded
\* got the message), every connection whose write failed is out of the
\* registry, the others stay registered in their order, and the channel key is
\* deleted only if no connection remains.
C11_BroadcastIsolatesFailures ==
    [][CleanupFailed =>
        LET channel == broadcast_channel(bc.match_id)
            before == Watchers(active_connections, bc.match_id)
            after == Watchers(active_connections', bc.match_id)
            failed == Range(bc.failed_connections)
        IN  /\ bc.attempts = bc.connections
            /\ bc.successful_sends = Len(bc.connections) - Len(bc.failed_connections)
            /\ \A websocket \in failed : websocket \notin Range(after)
            /\ after = SelectSeq(before, LAMBDA websocket : websocket \notin failed)
            /\ (channel \in DOMAIN active_connections') = (after # <<>>)
            /\ (channel \in DOMAIN active_connections /\ after # <<>>)
                    => channel \in DOMAIN active_connections']_vars

\* three connections, one failed write: two were delivered and stay registered
C11_Witness ==
    /\ bc.pc = "done"
    /\ Len(bc.connections) = 3
    /\ Len(bc.failed_connections) = 1
    /\ bc.successful_sends = 2
    /\ Len(Watchers(active_connections, bc.match_id)) = 2
    /\ Range(Watchers(active_connections, bc.match_id)) =
            Range(bc.connections) \ Range(bc.failed_connections)

\* C12: no channel key of active_connections maps to an empty list.
C12_NoEmptyChannel ==
    \A channel \in DOMAIN active_connections : active_connections[channel] # <<>>

\* the only connection of a channel was removed and the registry is empty again
C12_Witness ==
    /\ DOMAIN active_connections = {}
    /\ \E websocket \in Websockets :
        /\ sockets[websocket].pc = "open"
        /\ sockets[websocket].removed_by # <<>>

\* C13: every connection in the list of the match when broadcast_to_match
\* started gets exactly one send attempt: at most one while the pass runs and
\* exactly one when it has ended, whatever connect and disconnect calls ran
\* between its sends.
C13_SnapshotOneAttemptEach ==
    \A websocket \in Range(bc.connections) :
        /\ Attempts(websocket) <= 1
        /\ bc.pc = "done" => Attempts(websocket) = 1

\* all sends of a pass are made and the registry list is no longer the copy
C13_Witness ==
    /\ bc.pc = "sending"
    /\ bc.i > Len(bc.connections)
    /\ Len(bc.connections) >= 2
    /\ bc.failed_connections = <<>>
    /\ bc.attempts = bc.connections
    /\ Watchers(active_connections, bc.match_id) # bc.connections
    /\ Range(bc.connections) \ Range(Watchers(active_connections, bc.match_id)) # {}

\* C14: once a ball event, an initialization or a completion has been committed
\* and its route has returned, the match's score document has been published
\* on the match's channel.
C14_CommitIsPublished ==
    (/\ ret.committed
     /\ ret.op \in {"process_ball_event", "initialize_score", "complete_match"})
    => (/\ pub_ret.outcome = "published"
        /\ pub_ret.match_id = ret.match_id)

\* the ball events of the two requests
BallOf(r) == reqs[r].ball_data

\* C15: when two concurrent ball requests on a match have both committed (and
\* they are the two ball events since the match was initialized), the
\* committed document is the initial document with the two events applied one
\* after the other in some order, and its score is the sum of their runs.
C15_NoLostUpdate ==
    \A match_id \in DOMAIN matches :
        (/\ \A r \in Requests : reqs[r].committed /\ reqs[r].match_id = match_id
         /\ HasScore(match_id)
         /\ hist[match_id].balls = 2)
        => LET score_data == ScoreData(match_id)
               initial == InitialScoreData(score_data.batting_team_id,
                                           score_data.bowling_team_id)
           IN  /\ score_data.score = BallOf("r1").runs + BallOf("r2").runs
               /\ \/ score_data = ApplyBall(ApplyBall(initial, BallOf("r1")), BallOf("r2"))
                  \/ score_data = ApplyBall(ApplyBall(initial, BallOf("r2")), BallOf("r1"))

\* C16: a session whose receive loop has ended has its heartbeat task cancelled
\* (or already finished) and is not in the registry, and list.remove ran for
\* it once: by its own finally block or by a broadcast that failed to write to
\* it, never by both.
C16_SessionCleanedUpOnce ==
    \A websocket \in Sessions :
        /\ Len(sockets[websocket].removed_by) <= 1
        /\ sockets[websocket].pc = "closed" =>
            /\ sockets[websocket].heartbeat \in {"cancelled", "stopped"}
            /\ ~Registered(active_connections, websocket, sockets[websocket].match_id)
            /\ Len(sockets[websocket].removed_by) = 1

\* the loop ended after a failed broadcast had already removed the connection
C16_Witness ==
    \E websocket \in Sessions :
        /\ sockets[websocket].pc = "closed"
        /\ sockets[websocket].last \in TerminalEvents
        /\ sockets[websocket].heartbeat = "cancelled"
        /\ sockets[websocket].removed_by = <<"broadcast">>

\* C17: a pattern message whose channel does not parse to a match id, or whose
\* broadcast raises, is logged and skipped: the subscriber stays subscribed and
\* in its loop, and a well-formed message it handles, whatever was skipped
\* before, is broadcast to its match with its data.
C17_BadMessageSkipped ==
    [][OnMessage =>
        LET message == Head(pubsub.queue)
            parsed == ParseMatchId(message.channel)
        IN  message.type = "pmessage" =>
                /\ sub'.pc # "exited"
                /\ pubsub'.patterns = pubsub.patterns
                /\ ~parsed.ok => (sub'.last = "skipped" /\ bc' = bc)
                /\ sub'.last = "skipped" => sub'.pc = "listening"
                /\ parsed.ok => sub'.last \in {"broadcast", "skipped"}
                /\ sub'.last = "broadcast" =>
                        /\ bc'.match_id = parsed.value
                        /\ bc'.message = message.data
                        /\ bc'.pc \in {"sending", "done"}]_vars

\* after a skipped message, a later message was broadcast and delivered
C17_Witness ==
    /\ sub.skipped
    /\ sub.last = "broadcast"
    /\ sub.pc = "listening"
    /\ bc.pc = "done"
    /\ bc.caller = "subscriber"
    /\ bc.successful_sends >= 1

\* C18: when pubsub.listen() fails, the subscriber does not exit for good: it
\* subscribes again.
C18_SubscriberResubscribes ==
    [][ListenFails => (sub'.pc # "exited" /\ pubsub'.patterns # {})]_vars

\* C19: the channel publish_match_update publishes on for a match id is
\* matched by the subscriber's pattern, parses back to the same id, and is the
\* key connect, disconnect and broadcast_to_match build for that id; the
\* broadcast the subscriber starts looks up the channel the message came on.
C19_OneChannelFormat ==
    [][/\ (PublishMatchUpdate /\ pub_ret'.outcome = "published"
                              /\ SubscribePattern \in pubsub.patterns)
            => LET match_id == pub_ret'.match_id
                   queued == pubsub'.queue
                   channel == queued[Len(queued)].channel
               IN  /\ pub_ret'.receivers = 1
                   /\ Len(queued) = Len(pubsub.queue) + 1
                   /\ GlobMatch(SubscribePattern, channel)
                   /\ ParseMatchId(channel) = [ok |-> TRUE, value |-> match_id]
                   /\ channel = connect_channel(match_id)
                   /\ channel = disconnect_channel(match_id)
                   /\ channel = broadcast_channel(match_id)
       /\ (OnMessage /\ sub'.last = "broadcast")
            => broadcast_channel(bc'.match_id) = Head(pubsub.queue).channel]_vars

\* an update published for match 12 reached a websocket watching match 12
C19_Witness ==
    /\ pub_ret.outcome = "published"
    /\ pub_ret.match_id = 12
    /\ bc.pc = "done"
    /\ bc.caller = "subscriber"
    /\ bc.match_id = 12
    /\ bc.successful_sends >= 1
    /\ \E websocket \in Sessions :
            /\ sockets[websocket].match_id = 12
            /\ websocket \in Range(bc.attempts)

\* C20: publish_match_update never raises to its caller, and a publish that
\* fails (json.dumps or the Redis call raises) leaves the matches table and
\* the pub/sub queue as they were.
C20_PublishFailureContained ==
    [][PublishMatchUpdate =>
        /\ ~pub_ret'.raised
        /\ matches' = matches
        /\ pub_ret'.outcome = "failed" => pubsub' = pubsub]_vars

\* a publish failed after a ball event was committed
C20_Witness ==
    /\ pub_ret.outcome = "failed"
    /\ ~pub_ret.raised
    /\ ret.op = "process_ball_event"
    /\ ret.committed
    /\ HasScore(ret.match_id)
    /\ ScoreData(ret.match_id).last_ball # None

\* C21: a connection whose handler found its match was given the initial
\* payload once and before any other frame: no broadcast update (nor ping or
\* pong) was written to it first.
C21_InitialSnapshotFirst ==
    \A websocket \in Sessions :
        /\ sockets[websocket].initials <= 1
        /\ sockets[websocket].match_found =>
            /\ sockets[websocket].initials = 1
            /\ sockets[websocket].first = "initial"

\* a broadcast has written to a connection that had got its initial payload
C21_Witness ==
    \E websocket \in Sessions :
        /\ sockets[websocket].match_found
        /\ sockets[websocket].first = "initial"
        /\ sockets[websocket].pc = "receiving"
        /\ bc.pc = "done"
        /\ bc.successful_sends >= 1
        /\ websocket \in Range(bc.attempts) \ Range(bc.failed_connections)

\* C22: a turn of the receive loop answers "ping" with one "pong" frame; for
\* "pong" and any other text it sends no frame and leaves the registry and
\* the rest of the session as they were.
C22_PingAnsweredOnce ==
    [][\A websocket \in Sessions, event \in LoopEvents \ {"timeout"} :
        receive_text(websocket, event) =>
            /\ sockets'[websocket].replied = IF event = "ping" THEN <<"pong">> ELSE <<>>
            /\ event # "ping" =>
                /\ active_connections' = active_connections
                /\ sockets'[websocket].first = sockets[websocket].first
                /\ sockets'[websocket].pc = "receiving"
                /\ sockets'[websocket].heartbeat = sockets[websocket].heartbeat]_vars

\* a "ping" from the client was answered with one "pong"
C22_Witness ==
    \E websocket \in Sessions :
        /\ sockets[websocket].pc = "receiving"
        /\ sockets[websocket].first = "initial"
        /\ sockets[websocket].last = "ping"
        /\ sockets[websocket].replied = <<"pong">>

\* C23: a receive timeout leaves the session as it was: the loop is still
\* waiting, the heartbeat task and the registration are untouched and no frame
\* is sent.
C23_TimeoutKeepsSession ==
    [][\A websocket \in Sessions :
        receive_text(websocket, "timeout") =>
            /\ sockets'[websocket].pc = "receiving"
            /\ sockets'[websocket].heartbeat = sockets[websocket].heartbeat
            /\ sockets'[websocket].replied = <<>>
            /\ active_connections' = active_connections]_vars

\* the loop has timed out and the session goes on
C23_Witness ==
    \E websocket \in Sessions :
        /\ sockets[websocket].last = "timeout"
        /\ sockets[websocket].pc = "receiving"
        /\ sockets[websocket].heartbeat = "running"
        /\ Registered(active_connections, websocket, sockets[websocket].match_id)

\* the counters of a score document
Counters(score_data) ==
    <<score_data.score, score_data.wickets, score_data.overs,
      score_data.current_batsmen, score_data.current_bowler>>

\* the ball events whose replay has something to count: a legal delivery, runs
\* or a wicket
Counting(ball_data) ==
    \/ ball_data.extra_type = NoExtra
    \/ ball_data.runs > 0
    \/ ball_data.is_wicket

\* C24 as stated: for every ball event and every In Progress document, applying
\* the event a second time changes the counters of the document again.
C24_NeverIdempotent ==
    [][\A match_id \in MatchIds, ball_data \in BallData :
        (/\ HasScore(match_id)
         /\ matches[match_id].status = IN_PROGRESS
         /\ process_ball_event(match_id, ball_data))
        => Counters(ApplyBall(matches'[match_id].score_data, ball_data))
            # Counters(matches'[match_id].score_data)]_vars

\* C24: for every ball event that is a legal delivery, scores runs or is a
\* wicket, and every In Progress document, applying the event a second time
\* changes the counters of the document again.
C24_ReplayCountsAgain ==
    [][\A match_id \in MatchIds, ball_data \in BallData :
        (/\ HasScore(match_id)
         /\ matches[match_id].status = IN_PROGRESS
         /\ Counting(ball_data)
         /\ process_ball_event(match_id, ball_data))
        => Counters(ApplyBall(matches'[match_id].score_data, ball_data))
            # Counters(matches'[match_id].score_data)]_vars

\* C24 witness: the same legal one-run wicket ball was applied twice in a row
\* and counted twice.
C24_Witness ==
    /\ HasScore(1)
    /\ matches[1].status = IN_PROGRESS
    /\ ret.op = "process_ball_event"
    /\ hist[1].only_balls
    /\ hist[1].balls = 2
    /\ ScoreData(1).score = 2
    /\ ScoreData(1).wickets = 2
    /\ ScoreData(1).overs = 2

\* C25: on a freshly initialized document a legal non-wicket ball with r runs
\* by batsman A off bowler X gives score r, wickets 0, overs (0,1), the single
\* batsman entry (A, r runs, 1 ball) and the bowler (X, r runs, overs (0,1),
\* no wicket).
C25_FirstBall ==
    [][\A match_id \in MatchIds, ball_data \in BallData :
        (/\ HasScore(match_id)
         /\ ScoreData(match_id) =
                InitialScoreData(ScoreData(match_id).batting_team_id,
                                 ScoreData(match_id).bowling_team_id)
         /\ ball_data.extra_type = NoExtra
         /\ ~ball_data.is_wicket
         /\ process_ball_event(match_id, ball_data))
        => LET after == matches'[match_id].score_data
           IN  /\ after.score = ball_data.runs
               /\ after.wickets = 0
               /\ after.overs = 1
               /\ after.current_batsmen =
                    <<[name |-> ball_data.batsman_name,
                       runs |-> ball_data.runs, balls |-> 1]>>
               /\ after.current_bowler =
                    [name |-> ball_data.bowler_name, runs |-> ball_data.runs,
                     overs |-> 1, wickets |-> 0]]_vars

\* C25 witness: the first ball of the innings was a legal single.
C25_Witness ==
    /\ HasScore(1)
    /\ ret.op = "process_ball_event"
    /\ hist[1].only_balls
    /\ hist[1].balls = 1
    /\ ScoreData(1).last_ball = [runs |-> 1, is_wicket |-> FALSE, extra_type |-> NoExtra]
    /\ ScoreData(1).score = 1
    /\ ScoreData(1).current_batsmen = <<[name |-> "A", runs |-> 1, balls |-> 1]>>

\* C26: on a non-wicket ball, if the named batsman is in current_batsmen that
\* entry's runs grow by the event's runs and its balls by 1 only on a legal
\* delivery, the other entries and the order staying as they were; if the
\* batsman is absent one entry is appended at the end, with the event's runs
\* and balls 1 if the delivery is legal, else 0.
C26_BatsmanBookkeeping ==
    [][\A match_id \in MatchIds, ball_data \in BatsmenBallData :
        (/\ HasScore(match_id)
         /\ ~ball_data.is_wicket
         /\ process_ball_event(match_id, ball_data))
        => LET before == ScoreData(match_id).current_batsmen
               after == matches'[match_id].score_data.current_batsmen
               faced == IF ball_data.extra_type = NoExtra THEN 1 ELSE 0
               named == {i \in 1..Len(before) :
                            before[i].name = ball_data.batsman_name}
           IN  IF named # {}
               THEN /\ Len(after) = Len(before)
                    /\ \A i \in 1..Len(before) :
                        after[i] = IF i \in named
                                   THEN [name |-> before[i].name,
                                         runs |-> before[i].runs + ball_data.runs,
                                         balls |-> before[i].balls + faced]
                                   ELSE before[i]
               ELSE after = before \o <<[name |-> ball_data.batsman_name,
                                         runs |-> ball_data.runs,
                                         balls |-> faced]>>]_vars

\* C26 witness: A took a single, B faced a dot ball, then a wide with one run
\* against A raised A's runs and left A's balls and B's entry alone.
C26_Witness ==
    /\ HasScore(1)
    /\ ret.op = "process_ball_event"
    /\ hist[1].balls = 3
    /\ ScoreData(1).wickets = 0
    /\ ScoreData(1).last_ball = [runs |-> 1, is_wicket |-> FALSE, extra_type |-> "wide"]
    /\ ScoreData(1).current_batsmen =
            <<[name |-> "A", runs |-> 2, balls |-> 1],
              [name |-> "B", runs |-> 0, balls |-> 1]>>

\* C27: a legal delivery by the continuing bowler sets current_bowler.overs to
\* the overs of the document after the ball, an illegal one leaves it as it was
\* and still adds its runs and its wicket; after six legal deliveries from
\* (0,0) the overs of the match and of the bowler are both (1,0).
C27_BowlerOvers ==
    [][\A match_id \in MatchIds, ball_data \in OverBallData :
        (/\ HasScore(match_id)
         /\ process_ball_event(match_id, ball_data))
        => LET before == ScoreData(match_id).current_bowler
               after == matches'[match_id].score_data
           IN  /\ (before # None /\ before.name = ball_data.bowler_name) =>
                    IF ball_data.extra_type = NoExtra
                    THEN after.current_bowler.overs = after.overs
                    ELSE /\ after.current_bowler.overs = before.overs
                         /\ after.current_bowler.runs = before.runs + ball_data.runs
                         /\ after.current_bowler.wickets =
                                before.wickets + IF ball_data.is_wicket THEN 1 ELSE 0
               /\ (/\ hist'[match_id].only_balls
                    /\ hist'[match_id].balls = 6
                    /\ hist'[match_id].legal = 6) =>
                    /\ after.overs = 10
                    /\ after.current_bowler.overs = 10]_vars

\* C27 witness: after six dot balls X's next delivery was a wide with a run and
\* a wicket; X's overs stayed (1,0).
C27_Witness ==
    /\ HasScore(1)
    /\ ret.op = "process_ball_event"
    /\ hist[1].only_balls
    /\ hist[1].balls = 7
    /\ hist[1].legal = 6
    /\ ScoreData(1).overs = 10
    /\ ScoreData(1).last_ball = [runs |-> 1, is_wicket |-> TRUE, extra_type |-> "wide"]
    /\ ScoreData(1).current_bowler =
            [name |-> "X", overs |-> 10, runs |-> 1, wickets |-> 1]

\* C28: a ball event that names a bowler other than the current one replaces
\* the bowler slot: the new name, this event's runs, wickets 1 for a wicket and
\* 0 otherwise, overs the document's overs after the ball for a legal delivery
\* and 0 otherwise; nothing of the previous bowler's figures is kept.
C28_NewBowlerReplacesSlot ==
    [][\A match_id \in MatchIds, ball_data \in OverBallData :
        (/\ HasScore(match_id)
         /\ ScoreData(match_id).current_bowler # None
         /\ ScoreData(match_id).current_bowler.name # ball_data.bowler_name
         /\ process_ball_event(match_id, ball_data))
        => LET after == matches'[match_id].score_data
           IN  after.current_bowler =
                [name |-> ball_data.bowler_name,
                 runs |-> ball_data.runs,
                 wickets |-> IF ball_data.is_wicket THEN 1 ELSE 0,
                 overs |-> IF ball_data.extra_type = NoExtra
                           THEN after.overs ELSE 0]]_vars

\* C28 witness: after two dot balls, the second by Y, X took over with a wide
\* that cost a run and took a wicket; the slot holds X's figures only.
C28_Witness ==
    /\ HasScore(1)
    /\ ret.op = "process_ball_event"
    /\ hist[1].only_balls
    /\ hist[1].balls = 3
    /\ ScoreData(1).overs = 2
    /\ ScoreData(1).score = 1
    /\ ScoreData(1).current_bowler =
            [name |-> "X", overs |-> 0, runs |-> 1, wickets |-> 1]

\* C29: update_score overwrites the keys of the update that the score document
\* already has and skips the others: the document keeps its keys, a key of the
\* update holds the update's value and every other key its old value; on a
\* match without a score document it returns None and changes nothing.
C29_UpdateScoreFrame ==
    [][\A match_id \in MatchIds, updates \in UpdateInputs :
        (/\ match_id \in DOMAIN matches
         /\ update_score(match_id, updates))
        => IF matches[match_id].score_data # None
           THEN LET before == ScoreData(match_id)
                    after == matches'[match_id].score_data
                IN  /\ ret'.value = "Match"
                    /\ DOMAIN after = DOMAIN before
                    /\ \A key \in DOMAIN before :
                        after[key] = IF key \in DOMAIN updates
                                     THEN updates[key] ELSE before[key]
                    /\ matches' = [matches EXCEPT ![match_id].score_data = after]
           ELSE /\ ret'.value = "None"
                /\ matches' = matches]_vars

\* C29 witness: after a single was scored the commentary was overwritten, the
\* unknown key was skipped and the score is still there.
C29_Witness ==
    /\ HasScore(1)
    /\ ret.op = "update_score"
    /\ ret.value = "Match"
    /\ ScoreData(1).commentary = "Match has begun!"
    /\ "bogus" \notin DOMAIN ScoreData(1)
    /\ ScoreData(1).score = 1
    /\ ScoreData(1).current_batsmen # <<>>

\* the methods that look a match up by id
LookupOps ==
    {"get_match", "initialize_score", "update_score", "process_ball_event",
     "complete_match"}

\* C30: get_match, initialize_score, update_score, process_ball_event and
\* complete_match called with the id of no match return None, create no match
\* and change no match there is.
C30_MissingMatchReturnsNone ==
    [][(/\ ret'.op \in LookupOps
        /\ ret'.match_id \notin DOMAIN matches)
       => /\ ret'.value = "None"
          /\ ~ret'.committed
          /\ matches' = matches]_vars

\* C30 witness: a ball event for the missing id came back None while match 1
\* kept its score of one single.
C30_Witness ==
    /\ HasScore(1)
    /\ ScoreData(1).score = 1
    /\ hist[1].balls = 1
    /\ ret.op = "process_ball_event"
    /\ ret.match_id = MissingId
    /\ ret.value = "None"

\* C31: when the with block of get_transaction_session raises, the session is
\* rolled back, the exception leaves the context manager and the session is
\* closed; a block that ends without commit is closed too; either way the
\* committed rows are as before, and a later session that has flushed nothing
\* of its own reads exactly the committed rows.
C31_RollbackOnError ==
    [][/\ \A exc \in Raisable :
            block_raises(exc) =>
                /\ db'.session.state = "closed"
                /\ db'.session.raised = exc
                /\ exc \in Exceptions => db'.session.rolled_back
                /\ Pending(db') = {}
                /\ db'.tables = db.tables
       /\ block_ends =>
                /\ db'.session.state = "closed"
                /\ db'.session.raised = "none"
                /\ Pending(db') = {}
                /\ db'.tables = db.tables
       /\ (session_query /\ db.session.flushed = {}) =>
                /\ db'.session.seen = db.tables
                /\ db'.session.seen \cap (db.dropped \ db.tables) = {}]_vars

\* C31 witness: Dave was added and flushed in a block that raised ValueError;
\* the next session queried and did not find him.
C31_Witness ==
    /\ db.session.state = "open"
    /\ db.session.queried
    /\ Pending(db) = {}
    /\ db.last_exit = "ValueError"
    /\ db.dropped = {"Dave"}
    /\ "Dave" \notin db.session.seen
    /\ "Dave" \notin db.tables

\* C32: a session whose heartbeat loop has stopped on a failed probe write
\* takes no further turn of the receive loop that leaves it receiving and
\* registered.
C32_UnitsEndTogether ==
    [][\A websocket \in Sessions, event \in LoopEvents :
        (/\ sockets[websocket].heartbeat = "stopped"
         /\ receive_text(websocket, event))
        => ~(/\ sockets'[websocket].pc = "receiving"
             /\ Registered(active_connections', websocket,
                            sockets'[websocket].match_id))]_vars

\* C33: a connection the handler registered is out of the registry once the
\* handler has returned, whether its loop ended or it failed before the loop.
C33_HandlerAlwaysUnregisters ==
    \A websocket \in Sessions :
        sockets[websocket].pc \in {"closed", "crashed"} =>
            ~Registered(active_connections, websocket, sockets[websocket].match_id)

NoDuplicates(seq) ==
    \A i, j \in 1..Len(seq) : seq[i] = seq[j] => i = j

\* C34: after any connect and disconnect calls a connection is at most once in
\* the list of a channel, one broadcast attempts it at most once and one
\* disconnect leaves it out of the channel.
C34_RegisteredOnce ==
    [][/\ \A channel \in DOMAIN active_connections' :
            NoDuplicates(active_connections'[channel])
       /\ NoDuplicates(bc'.attempts)
       /\ \A websocket \in Websockets, match_id \in ChannelIds :
            disconnect(websocket, match_id) =>
                ~Registered(active_connections', websocket, match_id)]_vars

\* C34 witness: two connections are in one channel, a broadcast has attempted
\* each of them, and a third was taken out by a disconnect call.
C34_Witness ==
    /\ \E channel \in DOMAIN active_connections :
        Len(active_connections[channel]) = 2
    /\ bc.pc = "done"
    /\ Len(bc.attempts) = 2
    /\ sockets["w3"].removed_by = <<"caller">>

\* C35: the disconnect call of the finally block, for a connection that is
\* no longer registered on its match (a failed broadcast took it out, or its
\* channel is gone), leaves the whole registry as it was and takes nothing
\* out; and after any disconnect a second one changes nothing more.
C35_DisconnectIdempotent ==
    [][\A websocket \in Sessions, event \in TerminalEvents :
        end_session(websocket, event) =>
            LET match_id == sockets[websocket].match_id
            IN  /\ ~Registered(active_connections, websocket, match_id) =>
                    /\ active_connections' = active_connections
                    /\ \A w \in Websockets :
                        sockets'[w].removed_by = sockets[w].removed_by
                /\ Disconnected(active_connections', websocket, match_id)
                        = active_connections']_vars

\* C35 witness: a failed broadcast had taken w1 out of the channel it shares
\* with w2; the disconnect of w1's handler then found nothing to do and w2 is
\* still registered.
C35_Witness ==
    /\ sockets["w1"].pc = "closed"
    /\ sockets["w1"].removed_by = <<"broadcast">>
    /\ sockets["w2"].match_id = sockets["w1"].match_id
    /\ sockets["w2"].pc = "receiving"
    /\ Registered(active_connections, "w2", sockets["w2"].match_id)

\* C36: broadcast_to_match for match id m touches only m's channel: it takes
\* the list of m's channel, attempts only connections registered under m,
\* its cleanup leaves every other channel as it was, and with no connection
\* registered under m it sends nothing and leaves the registry as it was.
C36_BroadcastStaysInChannel ==
    [][/\ Broadcast =>
            IF \E w \in Websockets :
                    Registered(active_connections, w, bc'.match_id)
            THEN /\ bc'.pc = "sending"
                 /\ \A w \in Websockets :
                        w \in Range(bc'.connections)
                            <=> Registered(active_connections, w, bc'.match_id)
            ELSE /\ bc'.pc = "done"
                 /\ bc'.attempts = <<>>
                 /\ bc'.successful_sends = 0
                 /\ active_connections' = active_connections
       /\ \A w \in Range(bc'.attempts) : sockets'[w].match_id = bc'.match_id
       /\ \A w \in Websockets :
            (/\ sockets[w].match_id # bc.match_id
             /\ Registered(active_connections, w, sockets[w].match_id)
             /\ cleanup_failed)
            => /\ Registered(active_connections', w, sockets[w].match_id)
               /\ active_connections'[connect_channel(sockets[w].match_id)]
                    = active_connections[connect_channel(sockets[w].match_id)]]_vars

\* C36 witness: every write of a broadcast to w1 and w2 failed and took them
\* out; w3, registered under the other match, got no attempt and is still
\* registered.
C36_Witness ==
    /\ bc.pc = "done"
    /\ Range(bc.attempts) = {"w1", "w2"}
    /\ Range(bc.failed_connections) = {"w1", "w2"}
    /\ sockets["w3"].match_id # bc.match_id
    /\ Registered(active_connections, "w3", sockets["w3"].match_id)
    /\ broadcast_channel(bc.match_id) \notin DOMAIN active_connections

\* C37: in every reachable score document the names in current_batsmen are
\* pairwise distinct, whatever ball events, with or without wickets, were
\* applied.
C37_BatsmenDistinct ==
    \A match_id \in DOMAIN matches :
        HasScore(match_id) =>
            LET current_batsmen == ScoreData(match_id).current_batsmen
            IN  \A i, j \in 1..Len(current_batsmen) :
                    current_batsmen[i].name = current_batsmen[j].name => i = j

\* C37 witness: with A and B at the crease a wicket ball named A; the list
\* holds B and one entry for A.
C37_Witness ==
    /\ HasScore(1)
    /\ ret.op = "process_ball_event"
    /\ hist[1].balls = 3
    /\ ScoreData(1).wickets = 1
    /\ ScoreData(1).last_ball.is_wicket
    /\ Len(ScoreData(1).current_batsmen) = 2
    /\ ScoreData(1).current_batsmen[1].name = "B"
    /\ ScoreData(1).current_batsmen[2].name = "A"

\* C38: for a match mutated only by process_ball_event since its last
\* initialize_score, after every committed ball event score is the sum of the
\* runs of the applied events and wickets the number of applied wicket events,
\* and neither is less than before the event.
C38_CountersAreSums ==
    [][\A match_id \in DOMAIN matches :
        (/\ HasScore(match_id)
         /\ ret'.op = "process_ball_event"
         /\ ret'.committed
         /\ ret'.match_id = match_id
         /\ hist'[match_id].only_balls)
        => LET before == ScoreData(match_id)
               after == matches'[match_id].score_data
           IN  /\ after.score = hist'[match_id].runs
               /\ after.wickets = hist'[match_id].wickets
               /\ after.score >= before.score
               /\ after.wickets >= before.wickets]_vars

\* C39: a successful complete_match changes only the status of its match: the
\* score document and every other column of the row are after the call what
\* they were before it, and no other match is touched.
C39_CompleteKeepsDocument ==
    [][\A match_id \in MatchIds :
        (/\ complete_match(match_id)
         /\ ret'.value = "Match")
        => /\ matches'[match_id].status = COMPLETED
           /\ matches'[match_id].score_data = matches[match_id].score_data
           /\ matches' = [matches EXCEPT ![match_id].status = COMPLETED]]_vars

C39_Witness ==
    /\ ret.op = "complete_match"
    /\ ret.value = "Match"
    /\ HasScore(1)
    /\ StatusOf(1) = COMPLETED
    /\ ScoreData(1).score = 1
    /\ Len(ScoreData(1).current_batsmen) = 1

====
